---- MODULE Spec2Model ----
(***************************************************************************)
(* A model of fire's orchestrator (src/main.rs: main, exec) and its error  *)
(* surface (src/error.rs).  Texts are sequences of one-character strings.  *)
(* The collaborators whose code is not part of src/ (template.rs, http.rs, *)
(* format.rs, args.rs, error::exit) are modelled from the specification.   *)
(***************************************************************************)
EXTENDS Integers, Sequences, FiniteSets, TLC

VARIABLES pc, args, file, props, content, request, formatterList, stdout,
          stderr, sent, resp, body, result, exitCode, panicAt,
          nSubst, nParse, nFormat

vars == <<pc, args, file, props, content, request, formatterList, stdout,
          stderr, sent, resp, body, result, exitCode, panicAt,
          nSubst, nParse, nFormat>>

(* ------------------------------ bounds -------------------------------- *)

\* header lines of a template, after the status line
MaxHeaders == 1
\* characters of a request or response body
MaxBodyLen == 2
\* formatter rules of an arbitrary rule list (specification SpecFmt)
MaxRules == 2

(* ------------------------------ values -------------------------------- *)

None == [some |-> FALSE, val |-> <<>>]
Some(x) == [some |-> TRUE, val |-> x]

Range(s) == {s[i] : i \in DOMAIN s}

SeqsUpTo(S, n) == UNION {[1..k -> S] : k \in 0..n}

RECURSIVE Concat(_)
Concat(ss) == IF ss = <<>> THEN <<>> ELSE Head(ss) \o Concat(Tail(ss))

\* bytes a body is made of: "b" a JSON token, "!" a byte that is not JSON,
\* "\n" whitespace
BodyChars == {"b", "!", "\n"}
Bodies == SeqsUpTo(BodyChars, MaxBodyLen)

(* --------------------- template::substitution ------------------------- *)

IsIdent(ch) == ch \in {"G", "u", "w", "C", "c", "j", "x", "b", "U"}

\* the value of property `name`; a later-supplied property wins
Lookup(ps, name) ==
  LET hits == {i \in DOMAIN ps : ps[i].name = name}
  IN  IF hits = {} THEN None
      ELSE Some(ps[CHOOSE i \in hits : \A j \in hits : j <= i].value)

\* the index of the first "}}" at or after position from + 2 of t, 0 when none
MarkerEnd(t, from) ==
  LET ends == {i \in (from + 2)..(Len(t) - 1) : t[i] = "}" /\ t[i + 1] = "}"}
  IN  IF ends = {} THEN 0 ELSE CHOOSE i \in ends : \A j \in ends : i <= j

\* the scanner: cursor i into the template t, out the text resolved so far
RECURSIVE Scan(_, _, _, _)
Scan(t, i, out, ps) ==
  IF i > Len(t) THEN [ok |-> TRUE, val |-> out, err |-> <<>>]
  ELSE
    LET e == IF i < Len(t) /\ t[i] = "{" /\ t[i + 1] = "{" THEN MarkerEnd(t, i) ELSE 0
    IN  IF e = 0 THEN Scan(t, i + 1, Append(out, t[i]), ps)
        ELSE LET name == SubSeq(t, i + 2, e - 1)
             IN  IF name = <<>> \/ \E k \in DOMAIN name : ~IsIdent(name[k])
                 THEN Scan(t, i + 1, Append(out, t[i]), ps)
                 ELSE IF ~Lookup(ps, name).some
                 THEN [ok |-> FALSE, val |-> <<>>, err |-> name]
                 ELSE Scan(t, e + 2, out \o Lookup(ps, name).val, ps)

\* one pass over the template: every {{NAME}} gives way to the value of NAME,
\* a value is not scanned again, and a name with no value fails the whole
substitution(t, ps) == Scan(t, 1, <<>>, ps)

(* ------------------------ HttpRequest::from_str ----------------------- *)

IsWs(ch) == ch \in {" ", "\t"}
IsBlank(line) == \A i \in DOMAIN line : IsWs(line[i])

\* the index of the first occurrence of ch in t, 0 when none
IndexOf(t, ch) ==
  LET at == {i \in DOMAIN t : t[i] = ch}
  IN  IF at = {} THEN 0 ELSE CHOOSE i \in at : \A j \in at : i <= j

TakeLine(t) == IF IndexOf(t, "\n") = 0 THEN t ELSE SubSeq(t, 1, IndexOf(t, "\n") - 1)
DropLine(t) == IF IndexOf(t, "\n") = 0 THEN <<>> ELSE SubSeq(t, IndexOf(t, "\n") + 1, Len(t))

RECURSIVE Trim(_)
Trim(t) ==
  IF t = <<>> THEN t
  ELSE IF IsWs(t[1]) THEN Trim(Tail(t))
  ELSE IF IsWs(t[Len(t)]) THEN Trim(SubSeq(t, 1, Len(t) - 1))
  ELSE t

\* the whitespace-separated tokens of a line
RECURSIVE TokensFrom(_, _, _, _)
TokensFrom(line, i, cur, toks) ==
  IF i > Len(line) THEN (IF cur = <<>> THEN toks ELSE Append(toks, cur))
  ELSE IF IsWs(line[i])
  THEN TokensFrom(line, i + 1, <<>>, IF cur = <<>> THEN toks ELSE Append(toks, cur))
  ELSE TokensFrom(line, i + 1, Append(cur, line[i]), toks)

Tokens(line) == TokensFrom(line, 1, <<>>, <<>>)

ParseErr(e) == [ok |-> FALSE, err |-> e, val |-> <<>>]

\* states Headers and Body of the parser
RECURSIVE ParseHeaders(_, _, _, _)
ParseHeaders(t, verb, url, hs) ==
  IF t = <<>>
  THEN [ok |-> TRUE, err |-> "", val |-> [verb |-> verb, url |-> url, headers |-> hs, body |-> None]]
  ELSE
    LET line == TakeLine(t)
        rest == DropLine(t)
        colon == IndexOf(line, ":")
    IN  IF IsBlank(line)
        THEN [ok |-> TRUE, err |-> "",
              val |-> [verb |-> verb, url |-> url, headers |-> hs,
                       body |-> IF rest = <<>> THEN None ELSE Some(rest)]]
        ELSE IF colon = 0 THEN ParseErr("MalformedHeader")
        ELSE ParseHeaders(rest, verb, url,
               Append(hs, [name |-> SubSeq(line, 1, colon - 1),
                           value |-> Trim(SubSeq(line, colon + 1, Len(line)))]))

\* state StatusLine of the parser
RECURSIVE from_str(_)
from_str(t) ==
  IF t = <<>> THEN ParseErr("MalformedStatusLine")
  ELSE
    LET line == TakeLine(t)
        toks == Tokens(line)
    IN  IF IsBlank(line) THEN from_str(DropLine(t))
        ELSE IF Len(toks) # 2 THEN ParseErr("MalformedStatusLine")
        ELSE ParseHeaders(DropLine(t), toks[1], toks[2], <<>>)

(* ------------------------ HeaderMap, Url ------------------------------ *)

Lower(ch) == IF ch = "C" THEN "c" ELSE IF ch = "U" THEN "u" ELSE IF ch = "G" THEN "g" ELSE ch
LowerSeq(t) == [i \in DOMAIN t |-> Lower(t[i])]

\* request.headers(): the parsed pairs under case-insensitive names
headers_of(req) ==
  [i \in DOMAIN req.headers |-> [name |-> LowerSeq(req.headers[i].name), value |-> req.headers[i].value]]

\* HeaderMap::get: the first value under the name, case-insensitively
get(hs, name) ==
  LET hits == {i \in DOMAIN hs : LowerSeq(hs[i].name) = LowerSeq(name)}
  IN  IF hits = {} THEN None
      ELSE Some(hs[CHOOSE i \in hits : \A j \in hits : i <= j].value)

ContentTypeName == <<"c">>

\* request.url(): "w" stands for a character no URL may hold
url_of(req) ==
  IF "w" \in Range(req.url) THEN [ok |-> FALSE, val |-> <<>>] ELSE [ok |-> TRUE, val |-> req.url]

(* ------------------------- format::formatters ------------------------- *)

JsonRule == [acc |-> "json", kind |-> "pretty"]
HighlightRule == [acc |-> "json", kind |-> "highlight"]

\* every rule a list may hold: what it accepts and how it transforms
Rules == [acc : {"json", "any"}, kind : {"pretty", "highlight"}]

\* the built-in rules: the JSON pretty-printer, then the highlighter when
\* colors are in use
formatters(syntax_hilighiting) ==
  <<JsonRule>> \o (IF syntax_hilighiting THEN <<HighlightRule>> ELSE <<>>)

\* ContentFormatter::accept
accept(rule, content_type) ==
  IF rule.acc = "any" THEN TRUE
  ELSE content_type.some /\ "j" \in Range(content_type.val)

RECURSIVE Intersperse(_)
Intersperse(t) ==
  IF Len(t) <= 1 THEN t ELSE <<t[1], "\n">> \o Intersperse(Tail(t))

\* ContentFormatter::format: the pretty-printer fails on a body that is not
\* JSON; the highlighter wraps the body in color codes
format(rule, text) ==
  IF rule.kind = "pretty"
  THEN IF (\E i \in DOMAIN text : text[i] \notin {"b", "\n"}) \/ "b" \notin Range(text)
       THEN [ok |-> FALSE, val |-> <<>>]
       ELSE [ok |-> TRUE, val |-> Intersperse(SelectSeq(text, LAMBDA ch : ch = "b"))]
  ELSE [ok |-> TRUE, val |-> <<"^">> \o text \o <<"$">>]

\* fold(body, |content, fmt| fmt.format(content).unwrap()): ok is FALSE
\* when an unwrap panics
RECURSIVE FoldFormat(_, _)
FoldFormat(rs, text) ==
  IF rs = <<>> THEN [ok |-> TRUE, val |-> text]
  ELSE LET r == format(Head(rs), text)
       IN  IF r.ok THEN FoldFormat(Tail(rs), r.val) ELSE [ok |-> FALSE, val |-> <<>>]

\* the fold over every rule, accepted or not
ApplyFormatters_NoFilter(rs, content_type, text) == FoldFormat(rs, text)

\* formatters.iter().filter(|fmt| fmt.accept(content_type)).fold(...)
ApplyFormatters(rs, content_type, text) ==
  FoldFormat(SelectSeq(rs, LAMBDA fmt : accept(fmt, content_type)), text)

(* ------------------------------ FireError ----------------------------- *)

Variants == {"Timeout", "Connection", "FileNotFound", "NoReadPermission",
             "NotAFile", "GenericIO", "Template", "Other"}

FireError(variant, payload) == [variant |-> variant, payload |-> payload]

\* the conversion with the wrong variant
FromSubstitutionError_Other(name) == FireError("Other", name)

\* impl From<SubstitutionError> for FireError
FromSubstitutionError(name) == FireError("Template", name)

\* {:?} of a path or a string
Quoted(t) == <<"\"">> \o t \o <<"\"">>

\* impl Display for FireError
Display(e) ==
  CASE e.variant = "Timeout" -> <<"Request to ">> \o e.payload \o <<" timed out">>
    [] e.variant = "Connection" ->
         <<"Unable to connect to URL ">> \o e.payload
           \o <<", verify that the URL is correct and that you have a working internet connection">>
    [] e.variant = "FileNotFound" -> <<"Could not find file ">> \o Quoted(e.payload)
    [] e.variant = "GenericIO" -> <<"IO error: ">> \o e.payload
    [] e.variant = "NotAFile" -> Quoted(e.payload) \o <<" exists but it is not a file">>
    [] e.variant = "NoReadPermission" -> <<"No permission to read file ">> \o Quoted(e.payload)
    [] e.variant = "Template" -> <<"Unable to render request from template. ">> \o e.payload
    [] e.variant = "Other" -> <<"Error: ">> \o e.payload

\* the exit codes with Other mapped to success
report_OtherZero(e) ==
  CASE e.variant = "Timeout" -> 3
    [] e.variant = "Connection" -> 4
    [] e.variant = "FileNotFound" -> 5
    [] e.variant = "NoReadPermission" -> 6
    [] e.variant = "NotAFile" -> 7
    [] e.variant = "GenericIO" -> 8
    [] e.variant = "Template" -> 9
    [] e.variant = "Other" -> 0

\* impl Termination for FireError
report(e) ==
  CASE e.variant = "Timeout" -> 3
    [] e.variant = "Connection" -> 4
    [] e.variant = "FileNotFound" -> 5
    [] e.variant = "NoReadPermission" -> 6
    [] e.variant = "NotAFile" -> 7
    [] e.variant = "GenericIO" -> 8
    [] e.variant = "Template" -> 9
    [] e.variant = "Other" -> 1

\* ExitCode::SUCCESS
SUCCESS == 0

\* error::exit: print the error, then its exit code
exit(e) == [message |-> Display(e), code |-> report(e)]

Ok == [kind |-> "Ok", err |-> FireError("", <<>>)]
Err(e) == [kind |-> "Err", err |-> e]
Running == [kind |-> "none", err |-> FireError("", <<>>)]

(* ------------------------------- inputs ------------------------------- *)

Args == [print_dbg : BOOLEAN, print_request : BOOLEAN, headers : BOOLEAN,
         colors : BOOLEAN, timeout : {"t"}]

\* args.file()
FilePath == <<"f">>

StatusLines == {<<"G", " ", "u">>, <<"G", " ", "w">>, <<"G">>,
                <<"G", " ", "{", "{", "U", "}", "}">>}
HeaderLines == {<<"C", ":", " ", "j">>, <<"x", ":", "b">>, <<"x">>}
Tails == {<<>>, <<"\n">>, <<"\n", "\n">>}
           \cup {<<"\n", "\n">> \o b : b \in Bodies \ {<<>>}}

\* the texts a template file may hold
Templates ==
  {s \o Concat([i \in DOMAIN hs |-> <<"\n">> \o hs[i]]) \o t :
     s \in StatusLines, hs \in SeqsUpTo(HeaderLines, MaxHeaders), t \in Tails}

\* std::fs::read_to_string(args.file())
ReadResults ==
  {[ok |-> TRUE, val |-> t, kind |-> ""] : t \in Templates}
    \cup {[ok |-> FALSE, val |-> <<>>, kind |-> k] : k \in {"NotFound", "PermissionDenied", "Interrupted"}}

\* args.env()
EnvResults ==
  {[ok |-> TRUE, val |-> ps] : ps \in {<<>>, <<[name |-> <<"U">>, value |-> <<"u">>]>>}}
    \cup {[ok |-> FALSE, val |-> <<>>]}

Statuses == {200, 404}

\* client.execute(req)
TransportResults ==
  {[ok |-> TRUE, status |-> st, headers |-> hs, is_timeout |-> FALSE, is_connect |-> FALSE] :
     st \in Statuses, hs \in {<<>>, <<[name |-> <<"c">>, value |-> <<"j">>]>>}}
    \cup {[ok |-> FALSE, status |-> 0, headers |-> <<>>, is_timeout |-> t, is_connect |-> c] :
            t \in BOOLEAN, c \in BOOLEAN}

NoResp == [ok |-> FALSE, status |-> 0, headers |-> <<>>, is_timeout |-> FALSE, is_connect |-> FALSE]

\* resp.text()
RespBodies == {<<>>, <<"b">>, <<"!">>, <<"b", "\n">>, <<"\n", "b", "b">>}
TextResults == {[ok |-> TRUE, val |-> b] : b \in RespBodies} \cup {[ok |-> FALSE, val |-> <<>>]}

(* ---------------------------- exec, by step --------------------------- *)

W(tag, text) == [tag |-> tag, text |-> text]

Panic(at) ==
  /\ pc' = "panicked"
  /\ panicAt' = at

Return(r) ==
  /\ pc' = "returned"
  /\ result' = r

\* main.rs 42-51
Start ==
  /\ pc = "start"
  /\ IF args.print_dbg
     THEN /\ stdout' = Append(stdout, W("dbg", <<>>))
          /\ Return(Ok)
     ELSE /\ pc' = "read_file"
          /\ UNCHANGED <<stdout, result>>
  /\ UNCHANGED <<args, file, props, content, request, formatterList, stderr, sent,
                 resp, body, exitCode, panicAt, nSubst, nParse, nFormat>>

\* the FireError of a failed read
ReadError(kind) ==
  CASE kind = "NotFound" -> FireError("FileNotFound", FilePath)
    [] kind = "PermissionDenied" -> FireError("NoReadPermission", FilePath)
    [] OTHER -> FireError("GenericIO", <<kind>>)

\* main.rs 54-67
ReadFile ==
  /\ pc = "read_file"
  /\ \E r \in ReadResults :
       IF r.ok
       THEN /\ file' = Some(r.val)
            /\ pc' = "substitute"
            /\ UNCHANGED result
       ELSE /\ Return(Err(ReadError(r.kind)))
            /\ UNCHANGED file
  /\ UNCHANGED <<args, props, content, request, formatterList, stdout, stderr, sent,
                 resp, body, exitCode, panicAt, nSubst, nParse, nFormat>>

\* Substitute with the substitution error dropped: the raw template goes on
Substitute_NoPropagate ==
  /\ pc = "substitute"
  /\ \E env \in EnvResults :
       IF ~env.ok
       THEN /\ Panic("env")
            /\ UNCHANGED <<props, content, result, nSubst>>
       ELSE LET r == substitution(file.val, env.val)
            IN  /\ props' = Some(env.val)
                /\ nSubst' = nSubst + 1
                /\ content' = Some(IF r.ok THEN r.val ELSE file.val)
                /\ pc' = "parse"
                /\ UNCHANGED <<result, panicAt>>
  /\ UNCHANGED <<args, file, request, formatterList, stdout, stderr, sent,
                 resp, body, exitCode, nParse, nFormat>>

\* main.rs 70-74
Substitute ==
  /\ pc = "substitute"
  /\ \E env \in EnvResults :
       IF ~env.ok
       THEN /\ Panic("env")
            /\ UNCHANGED <<props, content, result, nSubst>>
       ELSE LET r == substitution(file.val, env.val)
            IN  /\ props' = Some(env.val)
                /\ nSubst' = nSubst + 1
                /\ IF r.ok
                   THEN /\ content' = Some(r.val)
                        /\ pc' = "parse"
                        /\ UNCHANGED <<result, panicAt>>
                   ELSE /\ Return(Err(FromSubstitutionError(r.err)))
                        /\ UNCHANGED <<content, panicAt>>
  /\ UNCHANGED <<args, file, request, formatterList, stdout, stderr, sent,
                 resp, body, exitCode, nParse, nFormat>>

\* main.rs 77-84
Parse ==
  /\ pc = "parse"
  /\ nParse' = nParse + 1
  /\ LET r == from_str(content.val)
     IN  IF r.ok
         THEN /\ request' = Some(r.val)
              /\ formatterList' = formatters(args.colors)
              /\ pc' = "print_request"
              /\ UNCHANGED panicAt
         ELSE /\ Panic("parse")
              /\ UNCHANGED <<request, formatterList>>
  /\ UNCHANGED <<args, file, props, content, stdout, stderr, sent, resp, body,
                 result, exitCode, nSubst, nFormat>>

\* main.rs 88-89
RequestContentType(req) == get(headers_of(req), ContentTypeName)

\* a header line: name, ": ", {:?} of the value
HeaderLine(h) == h.name \o <<":", " ">> \o Quoted(h.value)

\* main.rs 92-106: what is written before the request's body
RequestHead(req, a) ==
  <<W("req_title", req.verb \o <<" ">> \o req.url), W("req_border", <<>>)>>
    \o (IF a.headers
        THEN [i \in DOMAIN headers_of(req) |-> W("req_header", HeaderLine(headers_of(req)[i]))]
               \o (IF req.body.some THEN <<W("blank", <<>>)>> ELSE <<>>)
        ELSE <<>>)

\* main.rs 91-117
PrintRequest ==
  /\ pc = "print_request"
  /\ LET req == request.val
         shown == ApplyFormatters(formatterList, RequestContentType(req), req.body.val)
     IN  IF ~args.print_request
         THEN /\ pc' = "execute"
              /\ UNCHANGED <<stdout, panicAt, nFormat>>
         ELSE IF ~url_of(req).ok
         THEN /\ Panic("url")
              /\ UNCHANGED <<stdout, nFormat>>
         ELSE IF ~req.body.some
         THEN /\ stdout' = stdout \o RequestHead(req, args) \o <<W("blank", <<>>)>>
              /\ pc' = "execute"
              /\ UNCHANGED <<panicAt, nFormat>>
         ELSE IF ~shown.ok
         THEN /\ stdout' = stdout \o RequestHead(req, args)
              /\ nFormat' = nFormat + 1
              /\ Panic("format_request")
         ELSE /\ stdout' = stdout \o RequestHead(req, args)
                             \o <<W("req_body", shown.val), W("blank", <<>>)>>
              /\ nFormat' = nFormat + 1
              /\ pc' = "execute"
              /\ UNCHANGED panicAt
  /\ UNCHANGED <<args, file, props, content, request, formatterList, stderr, sent,
                 resp, body, result, exitCode, nSubst, nParse>>

\* the request built with an empty body where the parsed body is absent
BuildRequest_EmptyBody(req, a) ==
  [verb |-> req.verb, url |-> url_of(req).val, timeout |-> a.timeout,
   headers |-> headers_of(req),
   body |-> IF req.body.some THEN req.body ELSE Some(<<>>)]

\* the request built with the body as it was printed
BuildRequest_Shown(req, a) ==
  LET at == {i \in DOMAIN stdout : stdout[i].tag = "req_body"}
  IN  [verb |-> req.verb, url |-> url_of(req).val, timeout |-> a.timeout,
       headers |-> headers_of(req),
       body |-> IF at = {} THEN req.body ELSE Some(stdout[CHOOSE i \in at : TRUE].text)]

\* main.rs 119-127: the request handed to the transport
BuildRequest(req, a) ==
  [verb |-> req.verb, url |-> url_of(req).val, timeout |-> a.timeout,
   headers |-> headers_of(req), body |-> req.body]

\* the transport error with the connect test made first
TransportError_ConnectFirst(e, url) ==
  IF e.is_connect THEN FireError("Connection", url)
  ELSE IF e.is_timeout THEN FireError("Timeout", url)
  ELSE FireError("Other", <<"e">>)

\* main.rs 136-142
TransportError(e, url) ==
  IF e.is_timeout THEN FireError("Timeout", url)
  ELSE IF e.is_connect THEN FireError("Connection", url)
  ELSE FireError("Other", <<"e">>)

\* main.rs 119-144
Execute ==
  /\ pc = "execute"
  /\ IF ~url_of(request.val).ok
     THEN /\ Panic("url")
          /\ UNCHANGED <<sent, resp, result>>
     ELSE /\ sent' = Append(sent, BuildRequest(request.val, args))
          /\ UNCHANGED panicAt
          /\ \E r \in TransportResults :
               /\ resp' = r
               /\ IF r.ok
                  THEN /\ pc' = "read_body"
                       /\ UNCHANGED result
                  ELSE Return(Err(TransportError(r, url_of(request.val).val)))
  /\ UNCHANGED <<args, file, props, content, request, formatterList, stdout, stderr,
                 body, exitCode, nSubst, nParse, nFormat>>

\* main.rs 148-154
ReadBody ==
  /\ pc = "read_body"
  /\ \E r \in TextResults :
       IF r.ok
       THEN /\ body' = Some(r.val)
            /\ pc' = "print_response"
            /\ UNCHANGED result
       ELSE /\ Return(Err(FireError("Other", <<"e">>)))
            /\ UNCHANGED body
  /\ UNCHANGED <<args, file, props, content, request, formatterList, stdout, stderr,
                 sent, resp, exitCode, panicAt, nSubst, nParse, nFormat>>

\* main.rs 158-163
StatusColor(status) ==
  IF status >= 200 /\ status <= 299 THEN "Green"
  ELSE IF status >= 400 /\ status <= 499 THEN "Yellow"
  ELSE IF status >= 500 /\ status <= 599 THEN "Red"
  ELSE "None"

\* main.rs 165
Kilo == 1024

\* main.rs 165-169
BodySize(text) ==
  IF Len(text) >= Kilo THEN <<Len(text) \div Kilo, "kb">> ELSE <<Len(text), "b">>

\* main.rs 199
ResponseContentType(r) == get(r.headers, ContentTypeName)

\* the response's body formatted whether or not it is empty
ShowsResponseBody_Always(text) == TRUE

\* main.rs 198: whether the response's body is formatted and written
ShowsResponseBody(text) == text # <<>>

\* main.rs 171-196: what is written before the response's body
ResponseHead(r, text, a) ==
  <<[tag |-> "resp_status", text |-> <<>>, status |-> r.status,
     color |-> StatusColor(r.status), size |-> BodySize(text)],
    W("resp_border", <<>>)>>
    \o (IF a.headers
        THEN [i \in DOMAIN r.headers |-> W("resp_header", HeaderLine(r.headers[i]))]
               \o (IF text # <<>> THEN <<W("blank", <<>>)>> ELSE <<>>)
        ELSE <<>>)

\* main.rs 205-208
ResponseBody(shown) ==
  <<W("resp_body", shown)>>
    \o (IF shown # <<>> /\ shown[Len(shown)] = "\n" THEN <<>> ELSE <<W("blank", <<>>)>>)

\* main.rs 156-211
PrintResponse ==
  /\ pc = "print_response"
  /\ LET shown == ApplyFormatters(formatterList, ResponseContentType(resp), body.val)
     IN  IF ~ShowsResponseBody(body.val)
         THEN /\ stdout' = stdout \o ResponseHead(resp, body.val, args)
              /\ Return(Ok)
              /\ UNCHANGED <<panicAt, nFormat>>
         ELSE IF ~shown.ok
         THEN /\ stdout' = stdout \o ResponseHead(resp, body.val, args)
              /\ nFormat' = nFormat + 1
              /\ Panic("format_response")
              /\ UNCHANGED result
         ELSE /\ stdout' = stdout \o ResponseHead(resp, body.val, args) \o ResponseBody(shown.val)
              /\ nFormat' = nFormat + 1
              /\ Return(Ok)
              /\ UNCHANGED panicAt
  /\ UNCHANGED <<args, file, props, content, request, formatterList, stderr, sent,
                 resp, body, exitCode, nSubst, nParse>>

\* main.rs 34-39
MainReturn ==
  /\ pc = "returned"
  /\ pc' = "exited"
  /\ IF result.kind = "Ok"
     THEN /\ exitCode' = <<SUCCESS>>
          /\ UNCHANGED stderr
     ELSE /\ exitCode' = <<exit(result.err).code>>
          /\ stderr' = Append(stderr, exit(result.err).message)
  /\ UNCHANGED <<args, file, props, content, request, formatterList, stdout, sent,
                 resp, body, result, panicAt, nSubst, nParse, nFormat>>

Init ==
  /\ pc = "start"
  /\ args \in Args
  /\ file = None
  /\ props = None
  /\ content = None
  /\ request = None
  /\ formatterList = <<>>
  /\ stdout = <<>>
  /\ stderr = <<>>
  /\ sent = <<>>
  /\ resp = NoResp
  /\ body = None
  /\ result = Running
  /\ exitCode = <<>>
  /\ panicAt = ""
  /\ nSubst = 0
  /\ nParse = 0
  /\ nFormat = 0

Next ==
  \/ Start
  \/ ReadFile
  \/ Substitute
  \/ Parse
  \/ PrintRequest
  \/ Execute
  \/ ReadBody
  \/ PrintResponse
  \/ MainReturn

Spec == Init /\ [][Next]_vars

(* ------------- the formatter pipeline on arbitrary rule lists --------- *)

FmtRequests ==
  [verb : {<<"G">>}, url : {<<"u">>},
   headers : {<<>>, <<[name |-> <<"C">>, value |-> <<"j">>]>>},
   body : {None} \cup {Some(b) : b \in Bodies}]

\* exec about to print a request, or a response, under any rule list
FmtInit ==
  /\ args \in {a \in Args : ~a.print_dbg /\ a.print_request /\ ~a.colors}
  /\ formatterList \in SeqsUpTo(Rules, MaxRules)
  /\ \/ /\ pc = "print_request"
        /\ request \in {Some(r) : r \in FmtRequests}
        /\ resp = NoResp
        /\ body = None
        /\ sent = <<>>
     \/ /\ pc = "print_response"
        /\ request = Some([verb |-> <<"G">>, url |-> <<"u">>, headers |-> <<>>, body |-> None])
        /\ resp \in {r \in TransportResults : r.ok}
        /\ body \in {Some(b) : b \in Bodies}
        /\ sent = <<BuildRequest(request.val, args)>>
  /\ file = None
  /\ props = None
  /\ content = None
  /\ stdout = <<>>
  /\ stderr = <<>>
  /\ result = Running
  /\ exitCode = <<>>
  /\ panicAt = ""
  /\ nSubst = 1
  /\ nParse = 1
  /\ nFormat = 0

FmtNext ==
  \/ PrintRequest
  \/ PrintResponse
  \/ MainReturn

SpecFmt == FmtInit /\ [][FmtNext]_vars

(* ------------------------------ properties ---------------------------- *)

SubstitutionFailed == file.some /\ props.some /\ ~substitution(file.val, props.val).ok
ParseFailed == content.some /\ pc # "parse" /\ ~from_str(content.val).ok
Tagged(tag) == {i \in DOMAIN stdout : stdout[i].tag = tag}
Contains(t, sub) == \E i \in 1..(Len(t) - Len(sub) + 1) : SubSeq(t, i, i + Len(sub) - 1) = sub

\* C1: once template substitution or parsing of the resolved text has failed,
\* no request is built or handed to the transport, whatever the flags.
C1_NoSendAfterFailure ==
  (SubstitutionFailed \/ ParseFailed) => sent = <<>> /\ resp = NoResp

C1_Witness ==
  /\ pc = "panicked" /\ ParseFailed /\ args.print_request /\ args.headers
  /\ from_str(content.val).err = "MalformedHeader"

\* the body after the first k rules of the list when a rule whose transform
\* fails passes its input on unchanged
RECURSIVE AfterRulesContained(_, _, _, _)
AfterRulesContained(rs, content_type, text, k) ==
  IF k = 0 THEN text
  ELSE LET before == AfterRulesContained(rs, content_type, text, k - 1)
       IN  IF accept(rs[k], content_type) /\ format(rs[k], before).ok
           THEN format(rs[k], before).val ELSE before

\* C2: a failing transform of an accepted formatter rule is contained: it
\* never aborts the invocation, neither while the request's body nor while
\* the response's body is rendered; the failing rule passes its input on
\* unchanged, the later rules still run, and the body is displayed.
C2_FormatterFailureContained ==
  /\ ~(pc = "panicked" /\ panicAt \in {"format_request", "format_response"})
  /\ \A i \in Tagged("req_body") :
       stdout[i].text = AfterRulesContained(formatterList, RequestContentType(request.val),
                                            request.val.body.val, Len(formatterList))
  /\ \A i \in Tagged("resp_body") :
       stdout[i].text = AfterRulesContained(formatterList, ResponseContentType(resp),
                                            body.val, Len(formatterList))

\* C3: when parsing the resolved text fails, exec returns an error value,
\* which main maps to a failure message and an exit code.
C3_ParseFailureReturned ==
  ParseFailed => result.kind = "Err" /\ pc \in {"returned", "exited"}

\* C4: when substitution fails with MissingValue(name), exec ends with
\* FireError::Template(name), nothing after the substitution step is done,
\* the message printed holds the name verbatim and the exit code is 9.
C4_MissingValue ==
  SubstitutionFailed =>
    /\ pc \in {"returned", "exited"}
    /\ result = Err(FireError("Template", substitution(file.val, props.val).err))
    /\ nParse = 0 /\ nFormat = 0 /\ content = None /\ request = None
    /\ stdout = <<>> /\ sent = <<>>
    /\ pc = "exited" =>
         /\ exitCode = <<9>>
         /\ Len(stderr) = 1
         /\ Contains(stderr[1], substitution(file.val, props.val).err)

C4_Witness ==
  /\ pc = "exited" /\ SubstitutionFailed
  /\ substitution(file.val, props.val).err = <<"U">>

\* C5: the request is executed at most once; a failed execution is not
\* retried and ends exec with one error, Timeout when the error is a
\* timeout, else Connection when it is a connect failure, else Other, and
\* no part of a response is read, formatted or printed after it.
C5_OneShotTransport ==
  /\ Len(sent) <= 1
  /\ (Len(sent) = 1 /\ ~resp.ok) =>
       /\ pc \in {"returned", "exited"}
       /\ result.kind = "Err"
       /\ result.err.variant =
            (IF resp.is_timeout THEN "Timeout"
             ELSE IF resp.is_connect THEN "Connection" ELSE "Other")
       /\ result.err.variant \in {"Timeout", "Connection"} => result.err.payload = sent[1].url
       /\ body = None
       /\ \A i \in DOMAIN stdout :
            stdout[i].tag \notin {"resp_status", "resp_border", "resp_header", "resp_body"}
       /\ nFormat = Cardinality(Tagged("req_body"))
       /\ pc = "exited" => Len(stderr) = 1 /\ exitCode = <<report(result.err)>>

C5_Witness ==
  /\ pc = "exited" /\ Len(sent) = 1 /\ ~resp.ok
  /\ resp.is_timeout /\ resp.is_connect /\ Tagged("req_body") # {}

\* C6, as stated: an invocation that ends successfully made exactly one
\* substitution pass, one parser pass and one formatter pass.
C6_ExactlyOnePassEach ==
  result.kind = "Ok" => nSubst = 1 /\ nParse = 1 /\ nFormat = 1

\* C6, amended: an invocation that ends successfully and does not print the
\* debug information made exactly one substitution pass and one parser
\* pass, and one formatter pass for the request's body when the request is
\* printed and has a body, plus one for the response's body when it is not
\* empty; the debug invocation makes no pass at all.
C6_PassesPerInvocation ==
  result.kind = "Ok" =>
    IF args.print_dbg
    THEN nSubst = 0 /\ nParse = 0 /\ nFormat = 0
    ELSE /\ nSubst = 1
         /\ nParse = 1
         /\ nFormat = (IF args.print_request /\ request.val.body.some THEN 1 ELSE 0)
                        + (IF body.val # <<>> THEN 1 ELSE 0)

C6_Witness == pc = "exited" /\ result.kind = "Ok" /\ nFormat = 2 /\ nSubst = 1 /\ nParse = 1

\* the body after the first k rules of the list: rule k transforms the body
\* left by the rules before it when it accepts the content type, and is
\* skipped when it does not
RECURSIVE AfterRules(_, _, _, _)
AfterRules(rs, content_type, text, k) ==
  IF k = 0 THEN text
  ELSE LET before == AfterRules(rs, content_type, text, k - 1)
       IN  IF accept(rs[k], content_type) THEN format(rs[k], before).val ELSE before

\* C7: a body that is displayed is the original body taken through the rules
\* that accept its content type, in registration order, each on the output
\* of the one before; with no accepting rule it is the original body.
C7_DisplayedBody ==
  /\ \A i \in Tagged("req_body") :
       stdout[i].text = AfterRules(formatterList, RequestContentType(request.val),
                                   request.val.body.val, Len(formatterList))
  /\ \A i \in Tagged("resp_body") :
       stdout[i].text = AfterRules(formatterList, ResponseContentType(resp),
                                   body.val, Len(formatterList))
  /\ \A i \in Tagged("req_body") \cup Tagged("resp_body") :
       LET ct == IF stdout[i].tag = "req_body" THEN RequestContentType(request.val)
                 ELSE ResponseContentType(resp)
           orig == IF stdout[i].tag = "req_body" THEN request.val.body.val ELSE body.val
       IN  (\A k \in DOMAIN formatterList : ~accept(formatterList[k], ct)) => stdout[i].text = orig

C7_Witness ==
  /\ Len(formatterList) = 2
  /\ \E i \in Tagged("resp_body") :
       /\ ~accept(formatterList[1], ResponseContentType(resp))
       /\ accept(formatterList[2], ResponseContentType(resp))
       /\ stdout[i].text # body.val

\* C8: a status line followed by a blank line and nothing else parses to its
\* verb and URL, no header and an absent body, which is not an empty body,
\* and the request handed to the transport is built without a body.
C8_BlankLineNoBody ==
  \A s \in {<<"G", " ", "u">>, <<"G", " ", "w">>} :
    (content.some /\ content.val = s \o <<"\n", "\n">>) =>
      /\ from_str(content.val).ok
      /\ from_str(content.val).val =
           [verb |-> <<s[1]>>, url |-> <<s[3]>>, headers |-> <<>>, body |-> None]
      /\ None # Some(<<>>)
      /\ request.some => request.val.body = None
      /\ \A i \in DOMAIN sent : sent[i].body = None /\ sent[i].body # Some(<<>>)

C8_Witness ==
  /\ content.some /\ content.val = <<"G", " ", "u", "\n", "\n">>
  /\ Len(sent) = 1 /\ resp.ok

ExitCodes ==
  [v \in Variants |->
     CASE v = "Timeout" -> 3 [] v = "Connection" -> 4 [] v = "FileNotFound" -> 5
       [] v = "NoReadPermission" -> 6 [] v = "NotAFile" -> 7 [] v = "GenericIO" -> 8
       [] v = "Template" -> 9 [] v = "Other" -> 1]

\* C10: main returns SUCCESS exactly when exec returns Ok; each of the eight
\* FireError variants has its own non-zero exit code (Timeout 3, Connection
\* 4, FileNotFound 5, NoReadPermission 6, NotAFile 7, GenericIO 8, Template
\* 9, Other 1), and that is the code main returns for it.
C10_ExitCodes ==
  /\ pc = "exited" => ((exitCode = <<SUCCESS>>) <=> (result.kind = "Ok"))
  /\ (pc = "exited" /\ result.kind = "Err") => exitCode = <<ExitCodes[result.err.variant]>>
  /\ \A v \in Variants : report(FireError(v, <<>>)) = ExitCodes[v]
  /\ SUCCESS \notin {report(FireError(v, <<>>)) : v \in Variants}
  /\ Cardinality({report(FireError(v, <<>>)) : v \in Variants}) = Cardinality(Variants)

C10_Witness ==
  pc = "exited" /\ result.kind = "Err" /\ result.err.variant = "Other" /\ exitCode = <<1>>

====
